---- MODULE Spec2Model ----
(***************************************************************************)
(* Model of the keplog CLI configuration resolver (src/lib/config.ts):     *)
(* the upward walk for .keplog.json, readConfig, getConfig and the         *)
(* write/delete helpers, over a small file system.                         *)
(***************************************************************************)
EXTENDS Naturals, Sequences, FiniteSets, TLC

(***************************************************************************)
(* Bounds of the model.                                                    *)
(***************************************************************************)
\* Depth of the deepest directory of the modelled path /root/a/b/...
MaxDepth == 3
\* Largest number of config files that exist at the same time.
MaxFiles == 2
\* Largest number of glob patterns of one upload.
MaxPatterns == 2
\* Largest number of source maps the server lists for a release.
MaxRemoteFiles == 2

(***************************************************************************)
(* JavaScript values.  A string is itself; undefined is a token that is    *)
(* no string the program produces.  An object is a function from the       *)
(* names of its own properties to values.                                  *)
(***************************************************************************)
Undefined == "<undefined>"

\* fields of the KeplogConfig interface
Fields == {"projectId", "apiKey", "apiUrl", "projectName"}

EmptyObj == [f \in {} |-> Undefined]

\* obj.f : a property that is not there reads as undefined
Get(obj, f) == IF f \in DOMAIN obj THEN obj[f] ELSE Undefined

\* truthiness of a string-or-undefined value: undefined and '' are falsy
Truthy(v) == v # Undefined /\ v # ""

\* a || b
Or(a, b) == IF Truthy(a) THEN a ELSE b

(***************************************************************************)
(* Paths are sequences of segments; the filesystem root is <<>>.           *)
(***************************************************************************)
CONFIG_FILENAME == ".keplog.json"

HomeDir == <<"home">>

\* path.join(dir, name)
Join(dir, name) == Append(dir, name)

GLOBAL_CONFIG_PATH == Join(HomeDir, ".keplogrc")

\* path.dirname(p): the parent, and the root is its own parent
Dirname(p) == IF Len(p) = 0 THEN p ELSE SubSeq(p, 1, Len(p) - 1)

\* path.parse(p).root of an absolute POSIX path
RootOf(p) == <<>>

PathSegs == <<"root", "a", "b", "c", "d", "e">>

\* the directories of the model: /, /root, /root/a, ...
Dirs == {SubSeq(PathSegs, 1, n) : n \in 0..MaxDepth}

LocalPaths == {Join(d, CONFIG_FILENAME) : d \in Dirs}

Paths == LocalPaths \cup {GLOBAL_CONFIG_PATH}

\* the value null of getLocalConfigPath(): a sequence that is no path
Null == <<"<null>">>

(***************************************************************************)
(* File contents: no file, text that is not JSON, or the JSON text of an   *)
(* object.                                                                 *)
(***************************************************************************)
NoFile == [kind |-> "none", obj |-> EmptyObj]

Garbage == [kind |-> "garbage", obj |-> EmptyObj]

\* the JavaScript value null, as JSON.parse('null') returns it: a value
\* that has no properties and that no property can be read from
JSONnull == [null |-> "null"]

\* a file whose text is the JSON value null
NullText == [kind |-> "json", obj |-> JSONnull]

\* a file that exists and that this process may not read: readFileSync
\* raises EACCES
Unreadable == [kind |-> "unreadable", obj |-> EmptyObj]

\* JSON.stringify(config, null, 2): properties whose value is undefined are
\* left out of the text
JSONstringify(config) ==
    [kind |-> "json",
     obj  |-> [f \in {g \in DOMAIN config : config[g] # Undefined} |-> config[f]]]

\* JSON.parse(text): the object, or a SyntaxError
JSONparse(text) ==
    IF text.kind = "json" THEN [threw |-> FALSE, obj |-> text.obj]
                          ELSE [threw |-> TRUE, obj |-> EmptyObj]

(***************************************************************************)
(* Inputs.  Three configurations in which every environment-backed field   *)
(* is once set, once the empty string and once missing, and four           *)
(* environments built the same way.                                        *)
(***************************************************************************)
CfgA == [projectId |-> "id-A", apiKey |-> "", projectName |-> "Name-A"]

CfgB == [apiKey |-> "key-B", apiUrl |-> "", projectName |-> Undefined]

CfgC == [apiUrl |-> "https://c.example", projectId |-> "", projectName |-> ""]

Configs == {CfgA, CfgB, CfgC}

EnvVars == {"KEPLOG_PROJECT_ID", "KEPLOG_API_KEY", "KEPLOG_API_URL"}

EnvNone == [v \in EnvVars |-> Undefined]

EnvId == [KEPLOG_PROJECT_ID |-> "env-id", KEPLOG_API_KEY |-> "",
          KEPLOG_API_URL |-> Undefined]

EnvKey == [KEPLOG_PROJECT_ID |-> Undefined, KEPLOG_API_KEY |-> "env-key",
           KEPLOG_API_URL |-> ""]

EnvUrl == [KEPLOG_PROJECT_ID |-> "", KEPLOG_API_KEY |-> Undefined,
           KEPLOG_API_URL |-> "https://env.example"]

Envs == {EnvNone, EnvId, EnvKey, EnvUrl}

VARIABLES
    fs,     \* the config files: path -> content
    env,    \* process.env
    cwd,    \* process.cwd()
    ret,    \* the last call of a reading operation and what it returned
    disk,   \* the files the glob patterns of an upload are matched against
    options,\* the UploadOptions of the running uploadSourceMaps call
    up,     \* the locals of that call and how far it has come
    http,   \* the HTTP requests issued so far, in order
    call,   \* a ConfigManager method run statement by statement
    cmd     \* the command handler that is running: its options and locals

cfgVars == <<fs, env, cwd, ret>>

upVars == <<disk, options, up, http>>

cmdVars == <<call, cmd>>

vars == <<fs, env, cwd, ret, disk, options, up, http, call, cmd>>

\* fs.existsSync(p)
existsSync(fsys, p) == p \in DOMAIN fsys /\ fsys[p].kind # "none"

\* fs.readFileSync(p, 'utf-8') of a file that exists
readFileSync(fsys, p) == fsys[p]

(***************************************************************************)
(* ConfigManager                                                           *)
(***************************************************************************)
\* the while loop of findLocalConfigPath, from currentDir on
RECURSIVE WalkUp(_, _, _)
WalkUp(fsys, currentDir, root) ==
    IF currentDir = root
    THEN Null
    ELSE LET configPath == Join(currentDir, CONFIG_FILENAME)
         IN  IF existsSync(fsys, configPath)
             THEN configPath
             ELSE WalkUp(fsys, Dirname(currentDir), root)

\* findLocalConfigPath with the loop left out: only startDir itself is tested
findLocalConfigPath_NoAscent(fsys, startDir) ==
    IF startDir # RootOf(startDir) /\ existsSync(fsys, Join(startDir, CONFIG_FILENAME))
    THEN Join(startDir, CONFIG_FILENAME)
    ELSE Null

\* findLocalConfigPath that falls back to the start directory's path instead
\* of null
findLocalConfigPath_DefaultPath(fsys, startDir) ==
    LET found == WalkUp(fsys, startDir, RootOf(startDir))
    IN  IF found = Null THEN Join(startDir, CONFIG_FILENAME) ELSE found

findLocalConfigPath(fsys, startDir) == WalkUp(fsys, startDir, RootOf(startDir))

\* how often the loop of findLocalConfigPath executes currentDir = dirname(currentDir)
RECURSIVE WalkSteps(_, _, _)
WalkSteps(fsys, currentDir, root) ==
    IF currentDir = root
    THEN 0
    ELSE IF existsSync(fsys, Join(currentDir, CONFIG_FILENAME))
         THEN 0
         ELSE 1 + WalkSteps(fsys, Dirname(currentDir), root)

\* readFileSync returns the text: the file is there and may be read
Readable(fsys, p) == fsys[p].kind \notin {"none", "unreadable"}

\* the body of one try block of readConfig: read the file and parse it;
\* threw when readFileSync (ENOENT, EACCES) or JSON.parse raised
TryRead(fsys, p) ==
    IF Readable(fsys, p) THEN JSONparse(readFileSync(fsys, p))
                         ELSE [threw |-> TRUE, obj |-> EmptyObj]

\* the object that has obj's properties and, where obj has none, other's
Merged(obj, other) ==
    [f \in DOMAIN obj \cup DOMAIN other |->
        IF f \in DOMAIN obj THEN obj[f] ELSE other[f]]

\* readConfig that fills the fields the local file lacks from the global file
readConfig_Merge(fsys, dir) ==
    LET localConfigPath == findLocalConfigPath(fsys, dir)
        localRes == IF localConfigPath # Null THEN TryRead(fsys, localConfigPath)
                                             ELSE [threw |-> TRUE, obj |-> EmptyObj]
        globalRes == IF existsSync(fsys, GLOBAL_CONFIG_PATH)
                     THEN TryRead(fsys, GLOBAL_CONFIG_PATH)
                     ELSE [threw |-> TRUE, obj |-> EmptyObj]
    IN  [config |-> Merged(localRes.obj, globalRes.obj),
         warned |-> {p \in {localConfigPath, GLOBAL_CONFIG_PATH} :
                        existsSync(fsys, p) /\ TryRead(fsys, p).threw},
         threw  |-> FALSE]

\* readConfig that gives up after a local file that does not parse
readConfig_NoFallthrough(fsys, dir) ==
    LET localConfigPath == findLocalConfigPath(fsys, dir)
    IN  IF localConfigPath # Null
        THEN LET localRes == TryRead(fsys, localConfigPath)
             IN  [config |-> localRes.obj,
                  warned |-> IF localRes.threw THEN {localConfigPath} ELSE {},
                  threw  |-> FALSE]
        ELSE IF existsSync(fsys, GLOBAL_CONFIG_PATH)
             THEN LET globalRes == TryRead(fsys, GLOBAL_CONFIG_PATH)
                  IN  [config |-> globalRes.obj,
                       warned |-> IF globalRes.threw THEN {GLOBAL_CONFIG_PATH} ELSE {},
                       threw  |-> FALSE]
             ELSE [config |-> EmptyObj, warned |-> {}, threw |-> FALSE]

\* readConfig without the try/catch around the local read: the SyntaxError
\* of JSON.parse leaves the method
readConfig_NoCatch(fsys, dir) ==
    LET localConfigPath == findLocalConfigPath(fsys, dir)
    IN  IF localConfigPath # Null
        THEN LET localRes == TryRead(fsys, localConfigPath)
             IN  [config |-> localRes.obj, warned |-> {}, threw |-> localRes.threw]
        ELSE IF existsSync(fsys, GLOBAL_CONFIG_PATH)
             THEN LET globalRes == TryRead(fsys, GLOBAL_CONFIG_PATH)
                  IN  [config |-> globalRes.obj,
                       warned |-> IF globalRes.threw THEN {GLOBAL_CONFIG_PATH} ELSE {},
                       threw  |-> FALSE]
             ELSE [config |-> EmptyObj, warned |-> {}, threw |-> FALSE]

\* readConfig(): the object returned, the files a warning was logged for,
\* and whether an error left the method
readConfig(fsys, dir) ==
    LET localConfigPath == findLocalConfigPath(fsys, dir)
        localTried == localConfigPath # Null
        localRes == IF localTried THEN TryRead(fsys, localConfigPath)
                                  ELSE [threw |-> TRUE, obj |-> EmptyObj]
        globalTried == existsSync(fsys, GLOBAL_CONFIG_PATH)
        globalRes == IF globalTried THEN TryRead(fsys, GLOBAL_CONFIG_PATH)
                                    ELSE [threw |-> TRUE, obj |-> EmptyObj]
    IN  IF localTried /\ ~localRes.threw
        THEN [config |-> localRes.obj, warned |-> {}, threw |-> FALSE]
        ELSE LET w1 == IF localTried THEN {localConfigPath} ELSE {}
             IN  IF globalTried /\ ~globalRes.threw
                 THEN [config |-> globalRes.obj, warned |-> w1, threw |-> FALSE]
                 ELSE [config |-> EmptyObj,
                       warned |-> w1 \cup (IF globalTried THEN {GLOBAL_CONFIG_PATH}
                                                          ELSE {}),
                       threw  |-> FALSE]

\* the literal of getConfig's last || operand
DefaultApiUrl == "https://api.keplog.io"

\* a ?? b : only undefined falls through
Nullish(a, b) == IF a # Undefined THEN a ELSE b

\* getConfig with the environment variable before the file
getConfig_EnvFirst(fsys, e, dir) ==
    LET r == readConfig(fsys, dir)
        fileConfig == r.config
    IN  [config |->
            [projectId   |-> Or(e["KEPLOG_PROJECT_ID"], Get(fileConfig, "projectId")),
             apiKey      |-> Or(e["KEPLOG_API_KEY"], Get(fileConfig, "apiKey")),
             apiUrl      |-> Or(Or(e["KEPLOG_API_URL"], Get(fileConfig, "apiUrl")),
                                DefaultApiUrl),
             projectName |-> Get(fileConfig, "projectName")],
         warned |-> r.warned,
         threw  |-> r.threw]

\* getConfig with ?? in place of || : an empty string of the file is kept
getConfig_Nullish(fsys, e, dir) ==
    LET r == readConfig(fsys, dir)
        fileConfig == r.config
    IN  [config |->
            [projectId   |-> Nullish(Get(fileConfig, "projectId"), e["KEPLOG_PROJECT_ID"]),
             apiKey      |-> Nullish(Get(fileConfig, "apiKey"), e["KEPLOG_API_KEY"]),
             apiUrl      |-> Nullish(Nullish(Get(fileConfig, "apiUrl"),
                                             e["KEPLOG_API_URL"]),
                                     DefaultApiUrl),
             projectName |-> Get(fileConfig, "projectName")],
         warned |-> r.warned,
         threw  |-> r.threw]

\* getConfig without the hardcoded default
getConfig_NoDefault(fsys, e, dir) ==
    LET r == readConfig(fsys, dir)
        fileConfig == r.config
    IN  [config |->
            [projectId   |-> Or(Get(fileConfig, "projectId"), e["KEPLOG_PROJECT_ID"]),
             apiKey      |-> Or(Get(fileConfig, "apiKey"), e["KEPLOG_API_KEY"]),
             apiUrl      |-> Or(Get(fileConfig, "apiUrl"), e["KEPLOG_API_URL"]),
             projectName |-> Get(fileConfig, "projectName")],
         warned |-> r.warned,
         threw  |-> r.threw]

\* getConfig that does not consult KEPLOG_API_URL
getConfig_IgnoreEnvUrl(fsys, e, dir) ==
    LET r == readConfig(fsys, dir)
        fileConfig == r.config
    IN  [config |->
            [projectId   |-> Or(Get(fileConfig, "projectId"), e["KEPLOG_PROJECT_ID"]),
             apiKey      |-> Or(Get(fileConfig, "apiKey"), e["KEPLOG_API_KEY"]),
             apiUrl      |-> Or(Get(fileConfig, "apiUrl"), DefaultApiUrl),
             projectName |-> Get(fileConfig, "projectName")],
         warned |-> r.warned,
         threw  |-> r.threw]

\* the return statement of getConfig(): an object that has all four
\* properties; fileConfig.projectId raises a TypeError when fileConfig is null
effectiveConfig(fileConfig, e) ==
    IF fileConfig = JSONnull
    THEN [config |-> EmptyObj, threw |-> TRUE]
    ELSE [config |->
            [projectId   |-> Or(Get(fileConfig, "projectId"), e["KEPLOG_PROJECT_ID"]),
             apiKey      |-> Or(Get(fileConfig, "apiKey"), e["KEPLOG_API_KEY"]),
             apiUrl      |-> Or(Or(Get(fileConfig, "apiUrl"), e["KEPLOG_API_URL"]),
                                DefaultApiUrl),
             projectName |-> Get(fileConfig, "projectName")],
          threw |-> FALSE]

\* getConfig(): readConfig(), then the object built from what it returned
getConfig(fsys, e, dir) ==
    LET r == readConfig(fsys, dir)
    IN  [config |-> effectiveConfig(r.config, e).config,
         warned |-> r.warned,
         threw  |-> r.threw \/ effectiveConfig(r.config, e).threw]

\* hasGlobalConfig()
hasGlobalConfig(fsys) == existsSync(fsys, GLOBAL_CONFIG_PATH)

getLocalConfigPath(fsys, dir) == findLocalConfigPath(fsys, dir)

hasLocalConfig(fsys, dir) == findLocalConfigPath(fsys, dir) # Null

\* writeLocalConfig / writeGlobalConfig: the file holds the new text only
writeFileSync(fsys, p, text) == [fsys EXCEPT ![p] = text]

\* fs.unlinkSync(p): the file is removed; ENOENT is thrown when there is none
unlinkSync(fsys, p) ==
    IF existsSync(fsys, p) THEN [fs |-> [fsys EXCEPT ![p] = NoFile], threw |-> FALSE]
                           ELSE [fs |-> fsys, threw |-> TRUE]

writeLocalConfig(fsys, config, dir) ==
    writeFileSync(fsys, Join(dir, CONFIG_FILENAME), JSONstringify(config))

writeGlobalConfig(fsys, config) ==
    writeFileSync(fsys, GLOBAL_CONFIG_PATH, JSONstringify(config))

\* deleteLocalConfig without the existsSync test
deleteLocalConfig_NoGuard(fsys, dir) == unlinkSync(fsys, Join(dir, CONFIG_FILENAME))

\* deleteLocalConfig / deleteGlobalConfig: the file system afterwards and
\* whether an error left the method
deleteLocalConfig(fsys, dir) ==
    LET configPath == Join(dir, CONFIG_FILENAME)
    IN  IF existsSync(fsys, configPath) THEN unlinkSync(fsys, configPath)
                                        ELSE [fs |-> fsys, threw |-> FALSE]

deleteGlobalConfig(fsys) ==
    IF existsSync(fsys, GLOBAL_CONFIG_PATH) THEN unlinkSync(fsys, GLOBAL_CONFIG_PATH)
                                            ELSE [fs |-> fsys, threw |-> FALSE]

(***************************************************************************)
(* uploadSourceMaps (lib/uploader.ts).  A file path dir/name+ext is kept   *)
(* as its directory, its name without the last extension, and that         *)
(* extension.                                                              *)
(***************************************************************************)
File(dir, name, ext) == [dir |-> dir, name |-> name, ext |-> ext]

AppJsMap == File("dist", "app.js", ".map")

VendorJsMap == File("dist", "vendor.js", ".map")

AppJs == File("dist", "app", ".js")

\* dist/app.map.js: '.map' inside the name, not at its end
AppMapJs == File("dist", "app.map", ".js")

\* the files that can be on disk, in the order glob lists them
AllFilesSeq == <<AppJs, AppJsMap, AppMapJs, VendorJsMap>>

AllFiles == {AllFilesSeq[i] : i \in 1..Len(AllFilesSeq)}

\* glob patterns: dist/*.map, dist/app.js.map, dist/* and one that glob rejects
PatMaps == [valid |-> TRUE, dir |-> "dist", name |-> "*", ext |-> ".map"]

PatAppJsMap == [valid |-> TRUE, dir |-> "dist", name |-> "app.js", ext |-> ".map"]

PatAll == [valid |-> TRUE, dir |-> "dist", name |-> "*", ext |-> "*"]

PatInvalid == [valid |-> FALSE, dir |-> "", name |-> "[invalid-pattern", ext |-> ""]

Patterns == {PatMaps, PatAppJsMap, PatAll, PatInvalid}

Matches(pattern, file) ==
    /\ pattern.dir = file.dir
    /\ pattern.name = "*" \/ pattern.name = file.name
    /\ pattern.ext = "*" \/ pattern.ext = file.ext

\* await glob(pattern, { nodir: true }): the matching files, or an error
glob(pattern, files) ==
    IF ~pattern.valid
    THEN [threw |-> TRUE, matches |-> <<>>]
    ELSE [threw |-> FALSE,
          matches |-> SelectSeq(AllFilesSeq,
                                LAMBDA f : f \in files /\ Matches(pattern, f))]

\* [...new Set(seq)] with the set left out
Unique_Keep(seq) == seq

\* [...new Set(seq)]: the first occurrence of every element, in order
RECURSIVE Unique(_)
Unique(seq) ==
    IF seq = <<>>
    THEN <<>>
    ELSE LET front == Unique(SubSeq(seq, 1, Len(seq) - 1))
             last  == seq[Len(seq)]
         IN  IF \E i \in 1..Len(front) : front[i] = last THEN front
                                                         ELSE Append(front, last)

\* file.endsWith(suffix), for a suffix that is an extension
endsWith(file, suffix) == file.ext = suffix

\* the filter with no test at all
filterMapFiles_All(files) == files

\* uniqueFiles.filter(file => file.endsWith('.map'))
filterMapFiles(files) == SelectSeq(files, LAMBDA f : endsWith(f, ".map"))

\* a length test that never sends the pipeline to process.exit(1)
isEmpty_Never(files) == FALSE

\* uniqueFiles.length === 0 and mapFiles.length === 0
isEmpty(files) == Len(files) = 0

\* path.basename(filePath)
basename(file) == [name |-> file.name, ext |-> file.ext]

\* the multipart body: the release field and one file part per path
buildFormData(release, mapFiles) ==
    [release |-> release,
     files   |-> [i \in 1..Len(mapFiles) |->
                    [path |-> mapFiles[i], filename |-> basename(mapFiles[i])]]]

\* one request per file instead of one request with every file
postRequests_PerFile(opts, form) ==
    [i \in 1..Len(form.files) |->
        [method |-> "POST",
         url    |-> <<opts.apiUrl, "/api/v1/cli/projects/", opts.projectId, "/sourcemaps">>,
         apiKey |-> opts.apiKey,
         form   |-> [form EXCEPT !.files = <<form.files[i]>>]]]

\* the requests axios.post(url, formData, ...) sends: one
postRequests(opts, form) ==
    <<[method |-> "POST",
       url    |-> <<opts.apiUrl, "/api/v1/cli/projects/", opts.projectId, "/sourcemaps">>,
       apiKey |-> opts.apiKey,
       form   |-> form]>>

(***************************************************************************)
(* What axios.post settles with: a 2xx response, or an error.  An error    *)
(* carries isAxiosError, code, response (status, statusText, data) and     *)
(* request as axios sets them.                                             *)
(***************************************************************************)
Body(error, uploaded, hasErrors, errors) ==
    [error |-> error, uploaded |-> uploaded, hasErrors |-> hasErrors, errors |-> errors]

NoBody == Body(Undefined, <<>>, FALSE, <<>>)

Settled(ok, isAxios, code, hasResponse, hasRequest, status, statusText, data, message) ==
    [ok |-> ok, isAxios |-> isAxios, code |-> code, hasResponse |-> hasResponse,
     hasRequest |-> hasRequest, status |-> status, statusText |-> statusText,
     data |-> data, message |-> message]

\* 2xx with uploaded[] and errors[]: errors[] missing, empty or not empty.
\* A body that is text has none of the fields and reads like the first.
OkReplies ==
    {Settled(TRUE, FALSE, "", TRUE, TRUE, 200, "OK",
             Body(Undefined, uploaded, e[1], e[2]), <<>>) :
        uploaded \in {<<>>, <<"app.js.map">>},
        e \in {<<FALSE, <<>>>>, <<TRUE, <<>>>>, <<TRUE, <<"File too large">>>>}}

\* non-2xx: axios rejects with an error that has the response
HttpErrors ==
    {Settled(FALSE, TRUE, "ERR_BAD_REQUEST", TRUE, TRUE, 401, "Unauthorized",
             Body(e, <<>>, FALSE, <<>>),
             <<"Request failed with status code 401">>) :
        e \in {Undefined, "", "Invalid API key"}}
    \cup
    {Settled(FALSE, TRUE, "ERR_BAD_RESPONSE", TRUE, TRUE, 500, "Internal Server Error",
             Body(e, <<>>, FALSE, <<>>),
             <<"Request failed with status code 500">>) :
        e \in {Undefined, "Project not found"}}

DnsError ==
    Settled(FALSE, TRUE, "ENOTFOUND", FALSE, TRUE, 0, "", NoBody,
            <<"getaddrinfo ENOTFOUND">>)

RefusedError ==
    Settled(FALSE, TRUE, "ECONNREFUSED", FALSE, TRUE, 0, "", NoBody,
            <<"connect ECONNREFUSED">>)

\* the request went out and nothing came back
TimeoutError ==
    Settled(FALSE, TRUE, "ECONNABORTED", FALSE, TRUE, 0, "", NoBody,
            <<"timeout exceeded">>)

\* an axios error raised before any request was made
SetupError ==
    Settled(FALSE, TRUE, "ERR_BAD_OPTION", FALSE, FALSE, 0, "", NoBody,
            <<"bad option">>)

\* an error that is no axios error, such as a failing read stream
PlainError ==
    Settled(FALSE, FALSE, "ENOENT", FALSE, FALSE, 0, "", NoBody,
            <<"ENOENT: no such file or directory">>)

ErrorReplies ==
    HttpErrors \cup {DnsError, RefusedError, TimeoutError, SetupError, PlainError}

Replies == OkReplies \cup ErrorReplies

NoReply == Settled(FALSE, FALSE, "", FALSE, FALSE, 0, "", NoBody, <<>>)

\* the error a call ends with: a new Error(message), or the caught error
\* itself thrown again
NoThrown == [cause |-> "none", message |-> <<>>]

NewError(message) == [cause |-> "new", message |-> message]

Rethrown(error) == [cause |-> "same", message |-> error.message]

\* exit only when nothing at all was uploaded
hasErrors_NothingUploaded(data) ==
    data.hasErrors /\ Len(data.errors) > 0 /\ Len(data.uploaded) = 0

\* data.errors && data.errors.length > 0
hasErrors(data) == data.hasErrors /\ Len(data.errors) > 0

\* the message of an HTTP error without a look at the body
httpErrorMessage_StatusOnly(error) ==
    <<"HTTP ", ToString(error.status), ": ", error.statusText>>

\* data.error || `HTTP ${error.response.status}: ${error.response.statusText}`
httpErrorMessage(error) ==
    IF Truthy(error.data.error)
    THEN <<error.data.error>>
    ELSE <<"HTTP ", ToString(error.status), ": ", error.statusText>>

\* the catch block with error.request tested before error.response
catchBlock_RequestFirst(error, apiUrl) ==
    IF error.isAxios /\ error.code = "ENOTFOUND"
    THEN NewError(<<"Could not connect to ", apiUrl,
                    ". Please check your internet connection.">>)
    ELSE IF error.isAxios /\ error.code = "ECONNREFUSED"
    THEN NewError(<<"Connection refused to ", apiUrl, ". Please check the API URL.">>)
    ELSE IF error.isAxios /\ error.hasRequest
    THEN NewError(<<"No response from server. Please check your internet connection.">>)
    ELSE IF error.isAxios /\ error.hasResponse
    THEN NewError(httpErrorMessage(error))
    ELSE Rethrown(error)

\* the catch block of uploadSourceMaps: what it throws
catchBlock(error, apiUrl) ==
    IF error.isAxios /\ error.code = "ENOTFOUND"
    THEN NewError(<<"Could not connect to ", apiUrl,
                    ". Please check your internet connection.">>)
    ELSE IF error.isAxios /\ error.code = "ECONNREFUSED"
    THEN NewError(<<"Connection refused to ", apiUrl, ". Please check the API URL.">>)
    ELSE IF error.isAxios /\ error.hasResponse
    THEN NewError(httpErrorMessage(error))
    ELSE IF error.isAxios /\ error.hasRequest
    THEN NewError(<<"No response from server. Please check your internet connection.">>)
    ELSE Rethrown(error)

\* the options of an upload, and the locals of a call that has not begun
UploadOptions(patterns) ==
    [release |-> "v1.0.0", filePatterns |-> patterns, projectId |-> "test-project",
     apiKey |-> "test-key", apiUrl |-> "https://api.keplog.com"]

NoForm == [release |-> "", files |-> <<>>]

UpLocals(pc) ==
    [pc |-> pc, i |-> 1, allFiles |-> <<>>, uniqueFiles |-> <<>>, mapFiles |-> <<>>,
     form |-> NoForm, reply |-> NoReply, outcome |-> "running", exitCode |-> 0,
     thrown |-> NoThrown]

\* process.exit(code): the process is gone, nothing after it runs
Exit(locals, code) == [locals EXCEPT !.pc = "done", !.outcome = "exited", !.exitCode = code]

\* the promise of uploadSourceMaps rejects with the error
Throw(locals, error) == [locals EXCEPT !.pc = "done", !.outcome = "threw", !.thrown = error]

(***************************************************************************)
(* A ConfigManager method run one statement at a time, so that another     *)
(* process can touch the files between its existence test and its read or  *)
(* unlink.                                                                 *)
(***************************************************************************)
\* op: the method; pc: the statement it is at; path: the file it decided to
\* use; config, warned, threw: as in ret; eacces: a read was refused
NoRun == [op |-> "none", pc |-> "idle", path |-> Null, config |-> EmptyObj,
          warned |-> {}, threw |-> FALSE, eacces |-> FALSE]

\* readConfig() returns value: getConfig() goes on to build its object
Return(run, value) ==
    [run EXCEPT !.config = value,
                !.pc = IF run.op = "getConfig" THEN "build" ELSE "done"]

(***************************************************************************)
(* Command handlers (commands/*.ts).                                       *)
(***************************************************************************)
\* the options commander hands to a handler; a flag that was not given is
\* undefined, a boolean flag that was not given is false
Options(projectId, apiKey, apiUrl, release, file, files, yes, global, force) ==
    [projectId |-> projectId, apiKey |-> apiKey, apiUrl |-> apiUrl,
     release |-> release, file |-> file, files |-> files,
     yes |-> yes, global |-> global, force |-> force]

NoOptions == Options(Undefined, Undefined, Undefined, Undefined, Undefined, <<>>,
                     FALSE, FALSE, FALSE)

\* process.env.KEPLOG_RELEASE: not set
KEPLOG_RELEASE == Undefined

\* the last operand of `options.apiUrl || config.apiUrl || '...'`
CommandDefaultUrl(name) ==
    IF name = "delete" THEN "https://api.keplog.com" ELSE "https://api.keplog.io"

\* option resolution in which the config value is taken before the flag
resolveOptions_ConfigFirst(name, opts, config) ==
    [release   |-> IF name = "upload" THEN opts.release
                                      ELSE Or(opts.release, KEPLOG_RELEASE),
     projectId |-> Or(Get(config, "projectId"), opts.projectId),
     apiKey    |-> Or(Get(config, "apiKey"), opts.apiKey),
     apiUrl    |-> Or(Or(Get(config, "apiUrl"), opts.apiUrl), CommandDefaultUrl(name))]

\* the constants at the top of a handler's try block
resolveOptions(name, opts, config) ==
    [release   |-> IF name = "upload" THEN opts.release
                                      ELSE Or(opts.release, KEPLOG_RELEASE),
     projectId |-> Or(opts.projectId, Get(config, "projectId")),
     apiKey    |-> Or(opts.apiKey, Get(config, "apiKey")),
     apiUrl    |-> Or(Or(opts.apiUrl, Get(config, "apiUrl")), CommandDefaultUrl(name))]

\* validation that does not look at the API key
missing_KeyUnchecked(name, opts, r) ==
    IF name = "upload" /\ ~Truthy(r.release) THEN "release"
    ELSE IF name = "upload" /\ Len(opts.files) = 0 THEN "files"
    ELSE IF ~Truthy(r.projectId) THEN "projectId"
    ELSE IF name \in {"list", "delete"} /\ ~Truthy(r.release) THEN "release"
    ELSE "nothing"

\* the validation of a handler: the first requirement that is not met and
\* ends the process with exit code 1
missing(name, opts, r) ==
    IF name = "upload" /\ ~Truthy(r.release) THEN "release"
    ELSE IF name = "upload" /\ Len(opts.files) = 0 THEN "files"
    ELSE IF ~Truthy(r.projectId) THEN "projectId"
    ELSE IF ~Truthy(r.apiKey) THEN "apiKey"
    ELSE IF name \in {"list", "delete"} /\ ~Truthy(r.release) THEN "release"
    ELSE "nothing"

\* what fetch settles with.  rejected: no response at all; ok: a 2xx
\* status; json: the body is JSON, so response.json() succeeds; error: the
\* body's error field; names: the Filename of each listed source map
Fetched(rejected, ok, json, error, names) ==
    [rejected |-> rejected, ok |-> ok, json |-> json, error |-> error, names |-> names]

RemoteNames == <<"app.js.map", "vendor.js.map", "style.css.map">>

FetchOk == {Fetched(FALSE, TRUE, TRUE, Undefined, SubSeq(RemoteNames, 1, n)) :
                n \in 0..MaxRemoteFiles}

FetchHttpError ==
    {Fetched(FALSE, FALSE, TRUE, e, <<>>) : e \in {Undefined, "Release not found"}}
    \cup {Fetched(FALSE, FALSE, FALSE, Undefined, <<>>)}

FetchRejected == {Fetched(TRUE, FALSE, FALSE, Undefined, <<>>)}

FetchReplies == FetchOk \cup FetchHttpError \cup FetchRejected

\* the request fetch(url, { method, headers: { 'X-API-Key': apiKey } }) sends
fetchRequest(method, url, apiKey) ==
    [method |-> method, url |-> url, apiKey |-> apiKey, form |-> NoForm]

\* the URL of the GET of list, releases and issues list, and of the listing
\* that delete starts with
getUrl(name, r) ==
    IF name = "releases"
    THEN <<r.apiUrl, "/api/v1/cli/projects/", r.projectId, "/sourcemaps/releases">>
    ELSE IF name = "issues list"
    THEN <<r.apiUrl, "/api/v1/projects/", r.projectId, "/issues?", "status=open">>
    ELSE <<r.apiUrl, "/api/v1/cli/projects/", r.projectId, "/sourcemaps?release=",
           r.release>>

deleteUrl(r, file) ==
    <<r.apiUrl, "/api/v1/cli/projects/", r.projectId, "/sourcemaps/", file,
      "?release=", r.release>>

\* error.message of the errors a handler meets: a failed fetch, a body
\* that response.json() cannot parse, a property read on null, a prompt
\* that was left, a write that was refused
FetchFailed == "fetch failed"

NotJson == "Unexpected token < in JSON"

UnknownError == "Unknown error"

NullProperty == "Cannot read properties of null"

Canceled == "canceled"

WriteDenied == "EACCES: permission denied"

\* an outermost catch block that lets the handler return
catchBlockExit_Return(name, message) == [outcome |-> "returned", exitCode |-> 0]

\* the outermost catch block of a handler: how it ends the process
catchBlockExit(name, message) ==
    IF name = "init" /\ message = <<Canceled>>
    THEN [outcome |-> "exited", exitCode |-> 0]
    ELSE [outcome |-> "exited", exitCode |-> 1]

\* the prompt is skipped or answered with yes, whatever was answered
confirmed_Always(skipConfirm, answer) == TRUE

\* delete goes on to the DELETE requests: --yes, or response.confirmed
confirmed(skipConfirm, answer) == skipConfirm \/ answer = "y"

\* a delete loop that stops at the first failure
nextFile_AbortOnFailure(i, n, failed) == IF failed THEN n + 1 ELSE i + 1

\* the for loop over filesToDelete goes on to the next file
nextFile(i, n, failed) == i + 1

\* the message delete records for a DELETE that failed
deleteError(reply) ==
    IF reply.rejected THEN FetchFailed
    ELSE IF ~reply.json THEN NotJson
    ELSE Or(reply.error, UnknownError)

\* init asks before it overwrites: a config of the chosen scope exists and
\* --force was not given
overwritePrompt(force, isGlobal, hasLocal, hasGlobal) ==
    ~force /\ ((isGlobal /\ hasGlobal) \/ (~isGlobal /\ hasLocal))

\* value.trim() of an answer
trim(v) == IF v = " new-id " THEN "new-id" ELSE v

\* the answers to init's four questions; projectId is undefined when the
\* user left the prompt
Responses ==
    {[projectId |-> a, apiKey |-> b, apiUrl |-> "", projectName |-> ""] :
        a \in {Undefined, "", " new-id "}, b \in {"", "new-key"}}

\* the config init saves
initConfig(responses) ==
    [projectId   |-> trim(responses.projectId),
     apiKey      |-> trim(responses.apiKey),
     apiUrl      |-> Or(trim(responses.apiUrl), "https://api.keplog.io"),
     projectName |-> Or(trim(responses.projectName), Undefined)]

\* the locals of a handler.  caught: the message (as its pieces) of the
\* error its outermost catch block received, empty when there was none;
\* asked: the prompts shown, each with its answer; wrote: the config files
\* written; sent and settled: the DELETE requests issued and answered
Command(name, opts) ==
    [name |-> name, pc |-> "start", opts |-> opts,
     resolved |-> [release |-> Undefined, projectId |-> Undefined,
                   apiKey |-> Undefined, apiUrl |-> Undefined],
     filesToDelete |-> <<>>, i |-> 1, deletedCount |-> 0, failedCount |-> 0,
     errors |-> <<>>, asked |-> <<>>, wrote |-> {}, sent |-> 0, settled |-> 0,
     outcome |-> "running", exitCode |-> 0, caught |-> <<>>]

NoCommand == [Command("none", NoOptions) EXCEPT !.pc = "idle"]

\* process.exit(code) in a handler
ExitCommand(c, code) == [c EXCEPT !.pc = "done", !.outcome = "exited", !.exitCode = code]

\* the handler's promise resolves: the process ends with exit code 0
ReturnCommand(c) == [c EXCEPT !.pc = "done", !.outcome = "returned"]

\* an error reaches the outermost catch block
CatchCommand(c, message) ==
    [c EXCEPT !.pc = "done", !.caught = message,
              !.outcome = catchBlockExit(c.name, message).outcome,
              !.exitCode = catchBlockExit(c.name, message).exitCode]

(***************************************************************************)
(* The state machine.                                                      *)
(***************************************************************************)
\* what ret holds when the last step was no reading call.  flag is the
\* boolean a call returned (for a delete: whether it found the file), steps
\* the number of parent steps of the lookup.
NoCall == [op |-> "none", config |-> EmptyObj, path |-> Null,
           warned |-> {}, threw |-> FALSE, flag |-> FALSE, steps |-> 0]

FileCount(fsys) == Cardinality({p \in DOMAIN fsys : existsSync(fsys, p)})

\* a write that creates a file stays within MaxFiles
RoomFor(fsys, p) == existsSync(fsys, p) \/ FileCount(fsys) < MaxFiles

Init ==
    /\ fs = [p \in Paths |-> NoFile]
    /\ env \in Envs
    /\ cwd \in Dirs
    /\ ret = NoCall
    /\ disk = {}
    /\ options = UploadOptions(<<>>)
    /\ up = UpLocals("idle")
    /\ http = <<>>
    /\ call = NoRun
    /\ cmd = NoCommand

ReadConfig ==
    /\ ret' = [NoCall EXCEPT !.op = "readConfig",
                             !.config = readConfig(fs, cwd).config,
                             !.warned = readConfig(fs, cwd).warned,
                             !.threw = readConfig(fs, cwd).threw]
    /\ UNCHANGED <<fs, env, cwd, upVars, cmdVars>>

GetConfig ==
    /\ ret' = [NoCall EXCEPT !.op = "getConfig",
                             !.config = getConfig(fs, env, cwd).config,
                             !.warned = getConfig(fs, env, cwd).warned,
                             !.threw = getConfig(fs, env, cwd).threw]
    /\ UNCHANGED <<fs, env, cwd, upVars, cmdVars>>

GetLocalConfigPath ==
    /\ ret' = [NoCall EXCEPT !.op = "getLocalConfigPath",
                             !.path = getLocalConfigPath(fs, cwd),
                             !.steps = WalkSteps(fs, cwd, RootOf(cwd))]
    /\ UNCHANGED <<fs, env, cwd, upVars, cmdVars>>

HasLocalConfig ==
    /\ ret' = [NoCall EXCEPT !.op = "hasLocalConfig",
                             !.flag = hasLocalConfig(fs, cwd),
                             !.steps = WalkSteps(fs, cwd, RootOf(cwd))]
    /\ UNCHANGED <<fs, env, cwd, upVars, cmdVars>>

WriteLocalConfig(config, dir) ==
    /\ RoomFor(fs, Join(dir, CONFIG_FILENAME))
    /\ fs' = writeLocalConfig(fs, config, dir)
    /\ ret' = NoCall
    /\ UNCHANGED <<env, cwd, upVars, cmdVars>>

WriteGlobalConfig(config) ==
    /\ RoomFor(fs, GLOBAL_CONFIG_PATH)
    /\ fs' = writeGlobalConfig(fs, config)
    /\ ret' = NoCall
    /\ UNCHANGED <<env, cwd, upVars, cmdVars>>

DeleteLocalConfig(dir) ==
    /\ fs' = deleteLocalConfig(fs, dir).fs
    /\ ret' = [NoCall EXCEPT !.op = "deleteLocalConfig",
                             !.flag = existsSync(fs, Join(dir, CONFIG_FILENAME)),
                             !.threw = deleteLocalConfig(fs, dir).threw]
    /\ UNCHANGED <<env, cwd, upVars, cmdVars>>

DeleteGlobalConfig ==
    /\ fs' = deleteGlobalConfig(fs).fs
    /\ ret' = [NoCall EXCEPT !.op = "deleteGlobalConfig",
                             !.flag = existsSync(fs, GLOBAL_CONFIG_PATH),
                             !.threw = deleteGlobalConfig(fs).threw]
    /\ UNCHANGED <<env, cwd, upVars, cmdVars>>

\* a config file edited by hand into text that is not JSON
EditFile(p) ==
    /\ RoomFor(fs, p)
    /\ fs' = writeFileSync(fs, p, Garbage)
    /\ ret' = NoCall
    /\ UNCHANGED <<env, cwd, upVars, cmdVars>>

Next ==
    \/ ReadConfig
    \/ GetConfig
    \/ GetLocalConfigPath
    \/ HasLocalConfig
    \/ \E config \in Configs, dir \in Dirs : WriteLocalConfig(config, dir)
    \/ \E config \in Configs : WriteGlobalConfig(config)
    \/ \E dir \in Dirs : DeleteLocalConfig(dir)
    \/ DeleteGlobalConfig
    \/ \E p \in Paths : EditFile(p)

Spec == Init /\ [][Next]_vars

(***************************************************************************)
(* One call of uploadSourceMaps, statement by statement.                   *)
(***************************************************************************)
PatternLists == UNION {[1..n -> Patterns] : n \in 0..MaxPatterns}

InitUpload ==
    /\ fs = [p \in Paths |-> NoFile]
    /\ env = EnvNone
    /\ cwd = <<>>
    /\ ret = NoCall
    /\ disk \in SUBSET AllFiles
    /\ options \in {UploadOptions(patterns) : patterns \in PatternLists}
    /\ up = UpLocals("glob")
    /\ http = <<>>
    /\ call = NoRun
    /\ cmd = NoCommand

\* one turn of the loop over filePatterns
GlobPattern ==
    /\ up.pc = "glob"
    /\ up.i <= Len(options.filePatterns)
    /\ LET r == glob(options.filePatterns[up.i], disk)
       IN  up' = IF r.threw
                 THEN Throw(up, NewError(<<"glob: ", options.filePatterns[up.i].name>>))
                 ELSE [up EXCEPT !.i = up.i + 1, !.allFiles = up.allFiles \o r.matches]
    /\ UNCHANGED <<cfgVars, cmdVars, disk, options, http>>

\* remove duplicates; nothing found ends the process
Deduplicate ==
    /\ up.pc = "glob"
    /\ up.i > Len(options.filePatterns)
    /\ LET uniqueFiles == Unique(up.allFiles)
       IN  up' = IF isEmpty(uniqueFiles)
                 THEN Exit([up EXCEPT !.uniqueFiles = uniqueFiles], 1)
                 ELSE [up EXCEPT !.uniqueFiles = uniqueFiles, !.pc = "filter"]
    /\ UNCHANGED <<cfgVars, cmdVars, disk, options, http>>

\* keep the .map files; none left ends the process
FilterMapFiles ==
    /\ up.pc = "filter"
    /\ LET mapFiles == filterMapFiles(up.uniqueFiles)
       IN  up' = IF isEmpty(mapFiles)
                 THEN Exit([up EXCEPT !.mapFiles = mapFiles], 1)
                 ELSE [up EXCEPT !.mapFiles = mapFiles, !.pc = "form"]
    /\ UNCHANGED <<cfgVars, cmdVars, disk, options, http>>

BuildFormData ==
    /\ up.pc = "form"
    /\ up' = [up EXCEPT !.form = buildFormData(options.release, up.mapFiles),
                        !.pc = "post"]
    /\ UNCHANGED <<cfgVars, cmdVars, disk, options, http>>

\* axios.post is called: the request goes out
Post ==
    /\ up.pc = "post"
    /\ http' = http \o postRequests(options, up.form)
    /\ up' = [up EXCEPT !.pc = "await"]
    /\ UNCHANGED <<cfgVars, cmdVars, disk, options>>

\* the await ends: the response is interpreted, or the catch block runs
Settle(reply) ==
    /\ up.pc = "await"
    /\ up' = LET got == [up EXCEPT !.reply = reply]
             IN  IF reply.ok
                 THEN IF hasErrors(reply.data)
                      THEN Exit(got, 1)
                      ELSE [got EXCEPT !.pc = "done", !.outcome = "returned"]
                 ELSE Throw(got, catchBlock(reply, options.apiUrl))
    /\ UNCHANGED <<cfgVars, cmdVars, disk, options, http>>

NextUpload ==
    \/ GlobPattern
    \/ Deduplicate
    \/ FilterMapFiles
    \/ BuildFormData
    \/ Post
    \/ \E reply \in Replies : Settle(reply)

SpecUpload == InitUpload /\ [][NextUpload]_vars

(***************************************************************************)
(* ConfigManager next to another process: readConfig, getConfig and the    *)
(* two delete helpers statement by statement, while the files of the       *)
(* current directory and of the home directory change under them.          *)
(***************************************************************************)
FaultDir == <<"root">>

FaultPaths == {Join(FaultDir, CONFIG_FILENAME), GLOBAL_CONFIG_PATH}

FaultContents == {NoFile, Garbage, NullText, Unreadable, JSONstringify(CfgA)}

InitFaults ==
    /\ fs = [p \in Paths |-> NoFile]
    /\ env = EnvId
    /\ cwd = FaultDir
    /\ ret = NoCall
    /\ disk = {}
    /\ options = UploadOptions(<<>>)
    /\ up = UpLocals("idle")
    /\ http = <<>>
    /\ call = NoRun
    /\ cmd = NoCommand

\* another process, or the user, creates, rewrites, protects or removes a file
Interfere(p, content) ==
    /\ fs[p] # content
    /\ fs' = [fs EXCEPT ![p] = content]
    /\ UNCHANGED <<env, cwd, ret, upVars, cmdVars>>

\* readConfig() or getConfig() is called: the lookup of the local file
StartRead(op) ==
    /\ call.pc \in {"idle", "done"}
    /\ LET localConfigPath == findLocalConfigPath(fs, cwd)
       IN  call' = [NoRun EXCEPT !.op = op, !.path = localConfigPath,
                                 !.pc = IF localConfigPath # Null THEN "readLocal"
                                                                  ELSE "checkGlobal"]
    /\ UNCHANGED <<cfgVars, upVars, cmd>>

\* try { readFileSync(localConfigPath); JSON.parse } catch { warn }
ReadLocal ==
    /\ call.pc = "readLocal"
    /\ LET r == TryRead(fs, call.path)
           seen == [call EXCEPT !.eacces = @ \/ fs[call.path] = Unreadable]
       IN  call' = IF ~r.threw
                   THEN Return(seen, r.obj)
                   ELSE [seen EXCEPT !.warned = @ \cup {call.path}, !.pc = "checkGlobal"]
    /\ UNCHANGED <<cfgVars, upVars, cmd>>

\* if (fs.existsSync(GLOBAL_CONFIG_PATH)), and return {} when it is false
CheckGlobal ==
    /\ call.pc = "checkGlobal"
    /\ call' = IF existsSync(fs, GLOBAL_CONFIG_PATH)
               THEN [call EXCEPT !.path = GLOBAL_CONFIG_PATH, !.pc = "readGlobal"]
               ELSE Return(call, EmptyObj)
    /\ UNCHANGED <<cfgVars, upVars, cmd>>

\* try { readFileSync(GLOBAL_CONFIG_PATH); JSON.parse } catch { warn }; return {}
ReadGlobal ==
    /\ call.pc = "readGlobal"
    /\ LET r == TryRead(fs, GLOBAL_CONFIG_PATH)
           seen == [call EXCEPT !.eacces = @ \/ fs[GLOBAL_CONFIG_PATH] = Unreadable]
       IN  call' = IF ~r.threw
                   THEN Return(seen, r.obj)
                   ELSE Return([seen EXCEPT !.warned = @ \cup {GLOBAL_CONFIG_PATH}],
                               EmptyObj)
    /\ UNCHANGED <<cfgVars, upVars, cmd>>

\* the return statement of getConfig()
BuildConfig ==
    /\ call.pc = "build"
    /\ call' = [call EXCEPT !.config = effectiveConfig(call.config, env).config,
                            !.threw = effectiveConfig(call.config, env).threw,
                            !.pc = "done"]
    /\ UNCHANGED <<cfgVars, upVars, cmd>>

\* deleteLocalConfig() or deleteGlobalConfig() is called: if (fs.existsSync(...))
StartDelete(op) ==
    /\ call.pc \in {"idle", "done"}
    /\ LET configPath == IF op = "deleteLocalConfig" THEN Join(cwd, CONFIG_FILENAME)
                                                     ELSE GLOBAL_CONFIG_PATH
       IN  call' = [NoRun EXCEPT !.op = op, !.path = configPath,
                                 !.pc = IF existsSync(fs, configPath) THEN "unlink"
                                                                      ELSE "done"]
    /\ UNCHANGED <<cfgVars, upVars, cmd>>

\* fs.unlinkSync(configPath)
Unlink ==
    /\ call.pc = "unlink"
    /\ fs' = unlinkSync(fs, call.path).fs
    /\ call' = [call EXCEPT !.threw = unlinkSync(fs, call.path).threw, !.pc = "done"]
    /\ UNCHANGED <<env, cwd, ret, upVars, cmd>>

NextFaults ==
    \/ \E p \in FaultPaths, content \in FaultContents : Interfere(p, content)
    \/ \E op \in {"readConfig", "getConfig"} : StartRead(op)
    \/ ReadLocal
    \/ CheckGlobal
    \/ ReadGlobal
    \/ BuildConfig
    \/ \E op \in {"deleteLocalConfig", "deleteGlobalConfig"} : StartDelete(op)
    \/ Unlink

SpecFaults == InitFaults /\ [][NextFaults]_vars

(***************************************************************************)
(* One run of the CLI: a command handler from its first statement to the   *)
(* end of the process.                                                     *)
(***************************************************************************)
CommandDirs == {<<>>, <<"root">>}

CfgG == [projectId |-> "id-G", apiKey |-> "key-G", apiUrl |-> "https://g.example"]

LocalContents == {NoFile, JSONstringify(CfgA), JSONstringify(CfgB), NullText}

GlobalContents == {NoFile, JSONstringify(CfgB), JSONstringify(CfgG)}

CredentialFlags ==
    {<<Undefined, Undefined, Undefined>>,
     <<"flag-id", "flag-key", Undefined>>,
     <<"flag-id", "flag-key", "https://flag.example">>}

Releases == {Undefined, "v1.0.0"}

CommandLines ==
    {Command("upload", Options(c[1], c[2], c[3], r, Undefined, f, FALSE, FALSE, FALSE)) :
        c \in CredentialFlags, r \in Releases, f \in {<<>>, <<PatMaps>>, <<PatInvalid>>}}
    \cup
    {Command("list", Options(c[1], c[2], c[3], r, Undefined, <<>>, FALSE, FALSE, FALSE)) :
        c \in CredentialFlags, r \in Releases}
    \cup
    {Command("delete", Options(c[1], c[2], c[3], r, f, <<>>, y, FALSE, FALSE)) :
        c \in CredentialFlags, r \in Releases, f \in {Undefined, "app.js.map"},
        y \in BOOLEAN}
    \cup
    {Command(n, Options(c[1], c[2], c[3], Undefined, Undefined, <<>>, FALSE, FALSE, FALSE)) :
        c \in CredentialFlags, n \in {"releases", "issues list"}}
    \cup
    {Command("init", [NoOptions EXCEPT !.global = g, !.force = f]) :
        g \in BOOLEAN, f \in BOOLEAN}

InitCommands ==
    /\ cwd \in CommandDirs
    /\ \E l \in LocalContents, g \in GlobalContents :
          fs = [p \in Paths |-> IF p = Join(cwd, CONFIG_FILENAME) THEN l
                                ELSE IF p = GLOBAL_CONFIG_PATH THEN g
                                ELSE NoFile]
    /\ env \in Envs
    /\ ret = NoCall
    /\ disk = {AppJsMap, AppJs}
    /\ options = UploadOptions(<<>>)
    /\ up = UpLocals("idle")
    /\ http = <<>>
    /\ call = NoRun
    /\ cmd \in CommandLines

\* upload, list, delete, releases, issues list: getConfig(), the options
\* resolved, the required ones validated
Validate ==
    /\ cmd.pc = "start"
    /\ cmd.name # "init"
    /\ LET g == getConfig(fs, env, cwd)
           r == resolveOptions(cmd.name, cmd.opts, g.config)
       IN  cmd' = IF g.threw THEN CatchCommand(cmd, <<NullProperty>>)
                  ELSE IF missing(cmd.name, cmd.opts, r) # "nothing"
                  THEN ExitCommand([cmd EXCEPT !.resolved = r], 1)
                  ELSE IF cmd.name = "upload"
                  THEN [cmd EXCEPT !.resolved = r, !.pc = "call"]
                  ELSE IF cmd.name = "delete" /\ Truthy(cmd.opts.file)
                  THEN [cmd EXCEPT !.resolved = r, !.pc = "confirm",
                                   !.filesToDelete = <<cmd.opts.file>>]
                  ELSE [cmd EXCEPT !.resolved = r, !.pc = "fetch"]
    /\ UNCHANGED <<cfgVars, upVars, call>>

\* upload: await uploadSourceMaps({...})
CallUpload ==
    /\ cmd.pc = "call"
    /\ options' = [release |-> cmd.resolved.release, filePatterns |-> cmd.opts.files,
                   projectId |-> cmd.resolved.projectId, apiKey |-> cmd.resolved.apiKey,
                   apiUrl |-> cmd.resolved.apiUrl]
    /\ up' = UpLocals("glob")
    /\ cmd' = [cmd EXCEPT !.pc = "uploading"]
    /\ UNCHANGED <<cfgVars, disk, http, call>>

\* upload: uploadSourceMaps has returned, thrown, or ended the process
UploadEnds ==
    /\ cmd.pc = "uploading"
    /\ up.pc = "done"
    /\ cmd' = IF up.outcome = "exited" THEN ExitCommand(cmd, up.exitCode)
              ELSE IF up.outcome = "threw" THEN CatchCommand(cmd, up.thrown.message)
              ELSE ReturnCommand(cmd)
    /\ UNCHANGED <<cfgVars, upVars, call>>

\* list, releases, issues list, and delete without --file: the GET is sent
Fetch ==
    /\ cmd.pc = "fetch"
    /\ http' = Append(http, fetchRequest("GET", getUrl(cmd.name, cmd.resolved),
                                         cmd.resolved.apiKey))
    /\ cmd' = [cmd EXCEPT !.pc = "await"]
    /\ UNCHANGED <<cfgVars, disk, options, up, call>>

\* the GET has settled
FetchSettled(reply) ==
    /\ cmd.pc = "await"
    /\ cmd' = IF reply.rejected THEN CatchCommand(cmd, <<FetchFailed>>)
              ELSE IF ~reply.json THEN CatchCommand(cmd, <<NotJson>>)
              ELSE IF ~reply.ok THEN ExitCommand(cmd, 1)
              ELSE IF cmd.name # "delete" \/ Len(reply.names) = 0 THEN ReturnCommand(cmd)
              ELSE [cmd EXCEPT !.filesToDelete = reply.names, !.pc = "confirm"]
    /\ UNCHANGED <<cfgVars, upVars, call>>

\* delete: the confirmation prompt, unless --yes was given
Confirm(answer) ==
    /\ cmd.pc = "confirm"
    /\ LET shown == IF cmd.opts.yes THEN cmd
                    ELSE [cmd EXCEPT !.asked = Append(@, <<"confirm", answer>>)]
       IN  cmd' = IF confirmed(cmd.opts.yes, answer) THEN [shown EXCEPT !.pc = "loop"]
                                                     ELSE ReturnCommand(shown)
    /\ UNCHANGED <<cfgVars, upVars, call>>

\* delete: the DELETE request of the next file is sent
SendDelete ==
    /\ cmd.pc = "loop"
    /\ cmd.i <= Len(cmd.filesToDelete)
    /\ http' = Append(http, fetchRequest("DELETE",
                                         deleteUrl(cmd.resolved, cmd.filesToDelete[cmd.i]),
                                         cmd.resolved.apiKey))
    /\ cmd' = [cmd EXCEPT !.pc = "awaitDelete", !.sent = @ + 1]
    /\ UNCHANGED <<cfgVars, disk, options, up, call>>

\* delete: the DELETE request has settled; the file is counted
DeleteSettled(reply) ==
    /\ cmd.pc = "awaitDelete"
    /\ LET failed == reply.rejected \/ ~reply.ok
           file == cmd.filesToDelete[cmd.i]
           counted == IF failed
                      THEN [cmd EXCEPT !.failedCount = @ + 1,
                                       !.errors = Append(@, <<file, deleteError(reply)>>)]
                      ELSE [cmd EXCEPT !.deletedCount = @ + 1]
       IN  cmd' = [counted EXCEPT !.settled = @ + 1, !.pc = "loop",
                                  !.i = nextFile(cmd.i, Len(cmd.filesToDelete), failed)]
    /\ UNCHANGED <<cfgVars, upVars, call>>

\* delete: the summary is printed and the handler returns
Summary ==
    /\ cmd.pc = "loop"
    /\ cmd.i > Len(cmd.filesToDelete)
    /\ cmd' = ReturnCommand(cmd)
    /\ UNCHANGED <<cfgVars, upVars, call>>

\* init: the existing configuration is looked for, the overwrite prompt shown
InitCheck(answer) ==
    /\ cmd.pc = "start"
    /\ cmd.name = "init"
    /\ LET shown == [cmd EXCEPT !.asked = Append(@, <<"overwrite", answer>>)]
       IN  cmd' = IF ~overwritePrompt(cmd.opts.force, cmd.opts.global,
                                      hasLocalConfig(fs, cwd), hasGlobalConfig(fs))
                  THEN [cmd EXCEPT !.pc = "ask"]
                  ELSE IF answer = "y" THEN [shown EXCEPT !.pc = "ask"]
                  ELSE ReturnCommand(shown)
    /\ UNCHANGED <<cfgVars, upVars, call>>

\* init: the questions are asked and the configuration saved.  fault is an
\* error of the environment: "canceled" is raised by the prompt, "EACCES"
\* by the write
InitAsk(responses, fault) ==
    /\ cmd.pc = "ask"
    /\ LET existingConfig == readConfig(fs, cwd).config
           shown == [cmd EXCEPT !.asked = @ \o <<<<"projectId", responses.projectId>>,
                                                 <<"apiKey", responses.apiKey>>>>]
           left == [cmd EXCEPT !.asked = Append(@, <<"projectId", Undefined>>)]
           configPath == IF cmd.opts.global THEN GLOBAL_CONFIG_PATH
                                            ELSE Join(cwd, CONFIG_FILENAME)
           saves == /\ existingConfig # JSONnull
                    /\ fault = "none"
                    /\ Truthy(responses.projectId)
                    /\ Truthy(responses.apiKey)
       IN  /\ cmd' = IF existingConfig = JSONnull THEN CatchCommand(cmd, <<NullProperty>>)
                     ELSE IF fault = "canceled" THEN CatchCommand(left, <<Canceled>>)
                     ELSE IF ~Truthy(responses.projectId) \/ ~Truthy(responses.apiKey)
                     THEN ReturnCommand(shown)
                     ELSE IF fault = "EACCES"
                     THEN CatchCommand(shown, <<WriteDenied>>)
                     ELSE ReturnCommand([shown EXCEPT !.wrote = {configPath}])
           /\ fs' = IF ~saves THEN fs
                    ELSE IF cmd.opts.global
                    THEN writeGlobalConfig(fs, initConfig(responses))
                    ELSE writeLocalConfig(fs, initConfig(responses), cwd)
    /\ UNCHANGED <<env, cwd, ret, upVars, call>>

NextCommands ==
    \/ Validate
    \/ CallUpload
    \/ GlobPattern
    \/ Deduplicate
    \/ FilterMapFiles
    \/ BuildFormData
    \/ Post
    \/ \E reply \in Replies : Settle(reply)
    \/ UploadEnds
    \/ Fetch
    \/ \E reply \in FetchReplies : FetchSettled(reply)
    \/ \E answer \in {"y", "n"} : Confirm(answer)
    \/ SendDelete
    \/ \E reply \in FetchReplies : DeleteSettled(reply)
    \/ Summary
    \/ \E answer \in {"y", "n"} : InitCheck(answer)
    \/ \E responses \in Responses, fault \in {"none", "canceled", "EACCES"} :
          InitAsk(responses, fault)

SpecCommands == InitCommands /\ [][NextCommands]_vars

(***************************************************************************)
(* Vocabulary of the properties.                                           *)
(***************************************************************************)
\* the fields getConfig backs with an environment variable
EnvFields == {"projectId", "apiKey", "apiUrl"}

EnvVarOf(f) == CASE f = "projectId" -> "KEPLOG_PROJECT_ID"
                 [] f = "apiKey"    -> "KEPLOG_API_KEY"
                 [] f = "apiUrl"    -> "KEPLOG_API_URL"

\* the directories on the path from d up to the filesystem root, both included
Ancestors(d) == {SubSeq(d, 1, n) : n \in 0..Len(d)}

\* the directories on the path from the current directory upward that hold
\* a .keplog.json
Holders == {d \in Ancestors(cwd) : fs[Join(d, CONFIG_FILENAME)].kind # "none"}

\* the one of a non-empty set of ancestors that is closest to the current directory
Nearest(H) == CHOOSE d \in H : \A other \in H : Len(other) <= Len(d)

\* the local file the lookup finds, and the file readConfig takes its result from
LocalFound == findLocalConfigPath(fs, cwd)

LocalParses == LocalFound # Null /\ fs[LocalFound].kind = "json"

LocalMalformed == LocalFound # Null /\ fs[LocalFound].kind = "garbage"

GlobalParses == fs[GLOBAL_CONFIG_PATH].kind = "json"

SelectedPath == IF LocalParses THEN LocalFound
                ELSE IF GlobalParses THEN GLOBAL_CONFIG_PATH
                ELSE Null

SelectedObj == IF SelectedPath = Null THEN EmptyObj ELSE fs[SelectedPath].obj

\* a field the object holds with a non-empty value
HoldsNonEmpty(obj, f) == f \in DOMAIN obj /\ obj[f] # ""

\* C1: every field among projectId, apiKey and apiUrl that the selected config
\* file holds with a non-empty value is returned by getConfig() with exactly
\* that value, whatever the environment variables are.
C1_FileValueWins ==
    (ret.op = "getConfig" /\ SelectedPath # Null) =>
        \A f \in EnvFields :
            HoldsNonEmpty(SelectedObj, f) => ret.config[f] = SelectedObj[f]

\* getConfig() has returned a file's value for a field whose environment
\* variable is set to another non-empty value
C1_Witness ==
    /\ ret.op = "getConfig"
    /\ SelectedPath # Null
    /\ \E f \in EnvFields :
          /\ HoldsNonEmpty(SelectedObj, f)
          /\ Truthy(env[EnvVarOf(f)])
          /\ env[EnvVarOf(f)] # SelectedObj[f]

\* C2 as stated: a field that is missing or the empty string in the selected
\* file makes getConfig() return the value of the field's environment
\* variable, for projectId, apiKey and apiUrl alike, and projectName is
\* returned as in the file.
C2_EnvValueReturned ==
    (ret.op = "getConfig" /\ SelectedPath # Null) =>
        /\ \A f \in EnvFields :
              ~HoldsNonEmpty(SelectedObj, f) => ret.config[f] = env[EnvVarOf(f)]
        /\ ret.config["projectName"] = Get(SelectedObj, "projectName")

\* C2 amended: for projectId and apiKey the environment variable's value is
\* returned; for apiUrl the variable's value when it is set and non-empty and
\* the hardcoded default otherwise; projectName is returned as in the file.
C2_EmptyIsAbsent ==
    (ret.op = "getConfig" /\ SelectedPath # Null) =>
        /\ \A f \in {"projectId", "apiKey"} :
              ~HoldsNonEmpty(SelectedObj, f) => ret.config[f] = env[EnvVarOf(f)]
        /\ ~HoldsNonEmpty(SelectedObj, "apiUrl") =>
              ret.config["apiUrl"] = IF Truthy(env["KEPLOG_API_URL"])
                                     THEN env["KEPLOG_API_URL"]
                                     ELSE "https://api.keplog.io"
        /\ ret.config["projectName"] = Get(SelectedObj, "projectName")

\* getConfig() has run on a selected file that holds the empty string for a
\* field whose environment variable is set
C2_Witness ==
    /\ ret.op = "getConfig"
    /\ SelectedPath # Null
    /\ \E f \in EnvFields :
          /\ f \in DOMAIN SelectedObj
          /\ SelectedObj[f] = ""
          /\ Truthy(env[EnvVarOf(f)])

\* C3: when a local .keplog.json is found and parses, readConfig() returns
\* exactly its content, and getConfig() fills a field the local file lacks
\* from the environment variable or the default, never from ~/.keplogrc.
C3_NoMerge ==
    LocalParses =>
        /\ ret.op = "readConfig" => ret.config = fs[LocalFound].obj
        /\ ret.op = "getConfig" =>
              \A f \in EnvFields :
                  f \notin DOMAIN fs[LocalFound].obj =>
                      ret.config[f] \in {env[EnvVarOf(f)], "https://api.keplog.io"}

\* readConfig() has returned a local file that lacks a field the global file
\* holds with a non-empty value
C3_Witness ==
    /\ ret.op = "readConfig"
    /\ LocalParses
    /\ GlobalParses
    /\ \E f \in Fields :
          /\ f \notin DOMAIN fs[LocalFound].obj
          /\ HoldsNonEmpty(fs[GLOBAL_CONFIG_PATH].obj, f)

\* C4: when the local config file does not parse, readConfig() logs a warning
\* for it and goes on to the global file: if ~/.keplogrc exists and parses,
\* its content is returned.
C4_FallsThroughToGlobal ==
    (ret.op = "readConfig" /\ LocalMalformed) =>
        /\ LocalFound \in ret.warned
        /\ GlobalParses => ret.config = fs[GLOBAL_CONFIG_PATH].obj

\* readConfig() has run with a malformed local file and a global file that
\* parses and is not empty
C4_Witness ==
    /\ ret.op = "readConfig"
    /\ LocalMalformed
    /\ GlobalParses
    /\ fs[GLOBAL_CONFIG_PATH].obj # EmptyObj

\* C5 as stated: whenever the local config file is malformed, readConfig()
\* returns the empty configuration and does not throw.
C5_MalformedGivesEmpty ==
    (ret.op = "readConfig" /\ LocalMalformed) =>
        ret.config = EmptyObj /\ ~ret.threw

\* C5 amended: with a malformed local file readConfig() never throws, and it
\* returns the empty configuration when no global file parses.
C5_MalformedNeverThrows ==
    (ret.op = "readConfig" /\ LocalMalformed) =>
        /\ ~ret.threw
        /\ ~GlobalParses => ret.config = EmptyObj

\* readConfig() has run with a malformed local file and no global file
C5_Witness ==
    /\ ret.op = "readConfig"
    /\ LocalMalformed
    /\ fs[GLOBAL_CONFIG_PATH].kind = "none"

\* C6: the apiUrl that getConfig() returns is a non-empty string, for every
\* combination of local file, global file and environment.
C6_ApiUrlNonEmpty ==
    (ret.op = "getConfig" /\ ~ret.threw) =>
        /\ "apiUrl" \in DOMAIN ret.config
        /\ ret.config["apiUrl"] # Undefined
        /\ ret.config["apiUrl"] # ""

\* getConfig() has run where neither the selected file nor the environment
\* gives a non-empty apiUrl, one of the two holding the empty string
C6_Witness ==
    /\ ret.op = "getConfig"
    /\ ~Truthy(Get(SelectedObj, "apiUrl"))
    /\ ~Truthy(env["KEPLOG_API_URL"])
    /\ "" \in {Get(SelectedObj, "apiUrl"), env["KEPLOG_API_URL"]}

\* no .keplog.json on the path from the current directory to the filesystem
\* root and no ~/.keplogrc
NoConfigFile == Holders = {} /\ fs[GLOBAL_CONFIG_PATH].kind = "none"

\* C7 as stated: with no local and no global file, apiUrl is the value of
\* KEPLOG_API_URL when the variable is set and the hardcoded default otherwise.
C7_EnvUrlWhenSet ==
    (ret.op = "getConfig" /\ NoConfigFile) =>
        ret.config["apiUrl"] = IF env["KEPLOG_API_URL"] # Undefined
                               THEN env["KEPLOG_API_URL"]
                               ELSE "https://api.keplog.io"

\* C7 amended: with no local and no global file, apiUrl is the value of
\* KEPLOG_API_URL when the variable is set to a non-empty string, and the
\* hardcoded default when it is unset or empty.
C7_EnvUrlWhenNonEmpty ==
    (ret.op = "getConfig" /\ NoConfigFile) =>
        ret.config["apiUrl"] = IF Truthy(env["KEPLOG_API_URL"])
                               THEN env["KEPLOG_API_URL"]
                               ELSE "https://api.keplog.io"

\* getConfig() has run without any config file and with KEPLOG_API_URL set
C7_Witness ==
    /\ ret.op = "getConfig"
    /\ NoConfigFile
    /\ Truthy(env["KEPLOG_API_URL"])

\* C8: when neither a config file nor KEPLOG_API_URL supplies an API URL,
\* getConfig().apiUrl is 'https://api.keplog.com'.
C8_DefaultIsDotCom ==
    (/\ ret.op = "getConfig"
     /\ ~Truthy(Get(SelectedObj, "apiUrl"))
     /\ ~Truthy(env["KEPLOG_API_URL"])) =>
        ret.config["apiUrl"] = "https://api.keplog.com"

\* some directory below the filesystem root, on the path from the current
\* directory upward, holds a .keplog.json
HolderBelowRoot == \E d \in Holders : d # <<>>

C10_RootIsTested ==
    (ret.op = "getLocalConfigPath" /\ Holders = {<<>>}) =>
        ret.path = Join(<<>>, CONFIG_FILENAME)

\* C11: the upward walk ends after at most as many parent steps as the start
\* directory is deep, and when no directory on the path holds a .keplog.json
\* it reaches the filesystem root and returns null: getLocalConfigPath() is
\* null and hasLocalConfig() is false.
C11_WalkEndsWithNull ==
    /\ ret.op \in {"getLocalConfigPath", "hasLocalConfig"} => ret.steps <= Len(cwd)
    /\ (ret.op = "getLocalConfigPath" /\ Holders = {}) =>
          ret.path = Null /\ ret.steps = Len(cwd)
    /\ (ret.op = "hasLocalConfig" /\ Holders = {}) =>
          ~ret.flag /\ ret.steps = Len(cwd)

\* getLocalConfigPath() has walked at least two levels up to the root without
\* meeting a config
C11_Witness ==
    /\ ret.op = "getLocalConfigPath"
    /\ Holders = {}
    /\ Len(cwd) >= 2
    /\ ret.steps = Len(cwd)

\* the two objects have the same value for every property, a property that
\* is undefined counting as one that is not there
SameConfig(a, b) ==
    \A f \in Fields \cup DOMAIN a \cup DOMAIN b : Get(a, f) = Get(b, f)

\* C12: right after any writeLocalConfig call into the current directory,
\* whatever was written before, readConfig() returns exactly the configuration
\* passed to that call; the same for writeGlobalConfig when no local config
\* exists.
C12_WriteReadRoundTrip ==
    [][/\ \A config \in Configs :
             WriteLocalConfig(config, cwd) =>
                 SameConfig(readConfig(fs', cwd).config, config)
       /\ \A config \in Configs :
             (WriteGlobalConfig(config) /\ Holders = {}) =>
                 SameConfig(readConfig(fs', cwd).config, config)]_vars

\* C13: deleteLocalConfig(dir) and deleteGlobalConfig() do not raise, leave
\* the target file absent and every other file as it was, and a second call
\* right after changes nothing and does not raise either.
C13_DeleteIsIdempotent ==
    [][/\ \A dir \in Dirs :
             DeleteLocalConfig(dir) =>
                 /\ ~ret'.threw
                 /\ ~existsSync(fs', Join(dir, CONFIG_FILENAME))
                 /\ \A p \in Paths \ {Join(dir, CONFIG_FILENAME)} : fs'[p] = fs[p]
                 /\ deleteLocalConfig(fs', dir) = [fs |-> fs', threw |-> FALSE]
       /\ DeleteGlobalConfig =>
             /\ ~ret'.threw
             /\ ~existsSync(fs', GLOBAL_CONFIG_PATH)
             /\ \A p \in Paths \ {GLOBAL_CONFIG_PATH} : fs'[p] = fs[p]
             /\ deleteGlobalConfig(fs') = [fs |-> fs', threw |-> FALSE]]_vars

\* deleteLocalConfig() has been called where there was no file to delete
C13_Witness ==
    /\ ret.op = "deleteLocalConfig"
    /\ ~ret.flag
    /\ ~ret.threw

(***************************************************************************)
(* Claims about uploadSourceMaps, stated over the disk and the patterns.   *)
(***************************************************************************)
PatternIndices == 1..Len(options.filePatterns)

AllPatternsValid == \A i \in PatternIndices : options.filePatterns[i].valid

\* the files on disk that some pattern matches
Discovered == {f \in disk : \E i \in PatternIndices : Matches(options.filePatterns[i], f)}

DiscoveredMaps == {f \in Discovered : f.ext = ".map"}

Occurrences(seq, x) == Cardinality({i \in 1..Len(seq) : seq[i] = x})

PartPaths(request) == [j \in 1..Len(request.form.files) |-> request.form.files[j].path]

\* the call is over and its one request was answered with reply
AnsweredWith(replies) == up.pc = "done" /\ Len(http) > 0 /\ up.reply \in replies

\* C14: a path found by several patterns appears once among the files that
\* go on to the upload, and a request body has at most one file part for it
C14_OnePartPerPath ==
    /\ up.pc \in {"filter", "form", "post", "await"} =>
          \A f \in Discovered : Occurrences(up.uniqueFiles, f) = 1
    /\ \A k \in 1..Len(http) :
          \A f \in AllFiles : Occurrences(PartPaths(http[k]), f) <= 1

C14_Witness ==
    /\ Len(http) = 1
    /\ Occurrences(up.allFiles, AppJsMap) >= 2
    /\ Occurrences(PartPaths(http[1]), AppJsMap) = 1

\* C15: the files in the upload request are exactly the discovered paths
\* that end with '.map', each sent under its base name
C15_ExactlyTheMapFiles ==
    \A k \in 1..Len(http) :
        /\ {http[k].form.files[j].path : j \in 1..Len(http[k].form.files)} = DiscoveredMaps
        /\ \A j \in 1..Len(http[k].form.files) :
              http[k].form.files[j].filename = basename(http[k].form.files[j].path)

C15_Witness ==
    /\ Len(http) = 1
    /\ AppMapJs \in Discovered
    /\ AppJs \in Discovered
    /\ DiscoveredMaps = {AppJsMap, VendorJsMap}

\* C16: when every pattern is evaluated and no file, or no '.map' file, is
\* matched, the call never gets past the filter: no request is issued and
\* the call can only end in process.exit(1)
C16_NothingToUploadExits ==
    (AllPatternsValid /\ DiscoveredMaps = {}) =>
        /\ http = <<>>
        /\ up.pc \in {"glob", "filter", "done"}
        /\ up.pc = "done" => up.outcome = "exited" /\ up.exitCode = 1

C16_Witness ==
    /\ AllPatternsValid
    /\ Discovered # {}
    /\ DiscoveredMaps = {}
    /\ up.outcome = "exited"
    /\ up.exitCode = 1
    /\ http = <<>>

\* C17: after a 2xx answer the call exits with 1 when errors[] is not
\* empty, whatever uploaded[] holds, and returns normally when errors[] is
\* empty or missing
C17_ErrorsListDecidesExit ==
    AnsweredWith(OkReplies) =>
        IF up.reply.data.hasErrors /\ up.reply.data.errors # <<>>
        THEN up.outcome = "exited" /\ up.exitCode = 1
        ELSE up.outcome = "returned" /\ up.exitCode = 0

C17_Witness ==
    /\ AnsweredWith(OkReplies)
    /\ up.reply.data.errors # <<>>
    /\ up.reply.data.uploaded # <<>>
    /\ up.outcome = "exited"

\* C18: after a non-2xx answer the call rejects with a new error whose
\* message is the body's error field when that is present and not empty,
\* and "HTTP <status>: <statusText>" otherwise
C18_HttpErrorMessage ==
    AnsweredWith(HttpErrors) =>
        /\ up.outcome = "threw"
        /\ up.thrown.cause = "new"
        /\ up.thrown.message =
              IF up.reply.data.error \notin {Undefined, ""}
              THEN <<up.reply.data.error>>
              ELSE <<"HTTP ", ToString(up.reply.status), ": ", up.reply.statusText>>

C18_Witness ==
    /\ AnsweredWith(HttpErrors)
    /\ up.reply.data.error = ""
    /\ up.thrown.message = <<"HTTP ", "401", ": ", "Unauthorized">>

\* C19: a call issues at most one POST, exactly one once discovery has
\* ended with a '.map' file, and a failed POST ends the call with the
\* error thrown to the caller
C19_NoRetry ==
    /\ Len(http) <= 1
    /\ \A k \in 1..Len(http) : http[k].method = "POST"
    /\ (up.pc \in {"await", "done"} /\ AllPatternsValid /\ DiscoveredMaps # {}) =>
          Len(http) = 1
    /\ AnsweredWith(ErrorReplies) => up.outcome = "threw" /\ Len(http) = 1

C19_Witness ==
    /\ AnsweredWith({TimeoutError})
    /\ Cardinality(DiscoveredMaps) = 2
    /\ Len(http) = 1
    /\ up.outcome = "threw"

\* the failure condition an axios error falls under
Condition(error) ==
    IF ~error.isAxios THEN "other"
    ELSE IF error.code = "ENOTFOUND" THEN "dns"
    ELSE IF error.code = "ECONNREFUSED" THEN "refused"
    ELSE IF error.hasResponse THEN "http"
    ELSE IF error.hasRequest THEN "no response"
    ELSE "other"

\* C20: each of the four failure conditions ends the call with a thrown
\* error whose message no failure of another condition gets, and any other
\* error is thrown again as it was caught
C20_DistinctMessages ==
    AnsweredWith(ErrorReplies) =>
        /\ up.outcome = "threw"
        /\ IF Condition(up.reply) = "other"
           THEN up.thrown = Rethrown(up.reply)
           ELSE /\ up.thrown.cause = "new"
                /\ \A other \in ErrorReplies :
                      Condition(other) # Condition(up.reply) =>
                          catchBlock(other, options.apiUrl).message # up.thrown.message

C20_Witness ==
    /\ AnsweredWith(HttpErrors)
    /\ up.outcome = "threw"
    /\ up.thrown.message = <<"Project not found">>

(***************************************************************************)
(* Claims about ConfigManager under hostile file content and interleaving. *)
(***************************************************************************)
CallOver(ops) == call.pc = "done" /\ call.op \in ops

\* C26: when reading an existing config file fails for lack of permission,
\* readConfig() and getConfig() end with that error thrown to the caller
C26_PermissionErrorPropagates ==
    (CallOver({"readConfig", "getConfig"}) /\ call.eacces) => call.threw

\* C29: whatever the config files contain, also the JSON value null,
\* readConfig() returns an object and getConfig() does not throw
C29_ContentNeverThrows ==
    CallOver({"readConfig", "getConfig"}) => ~call.threw /\ call.config # JSONnull

\* C30: with another process removing or rewriting the files, the delete
\* helpers and readConfig() end without an error thrown
C30_HelpersStayNonRaising ==
    CallOver({"deleteLocalConfig", "deleteGlobalConfig", "readConfig"}) => ~call.threw

(***************************************************************************)
(* Claims about the command handlers.                                      *)
(***************************************************************************)
Range(seq) == {seq[k] : k \in 1..Len(seq)}

CommandOver(names) == cmd.pc = "done" /\ cmd.name \in names

CredentialCommands == {"upload", "list", "delete", "releases", "issues list"}

\* neither the flag, nor the config file in use, nor the environment
\* variable gives the field a non-empty value
ResolvedEmpty(f) ==
    /\ ~Truthy(cmd.opts[f])
    /\ ~Truthy(Get(SelectedObj, f))
    /\ ~Truthy(env[EnvVarOf(f)])

DeleteRequests == SelectSeq(http, LAMBDA request : request.method = "DELETE")

\* C21: a run of upload, list, delete, releases or issues list in which the
\* resolved projectId or apiKey is empty issues no HTTP request and can
\* only end with exit code 1
C21_MissingCredentialStops ==
    (/\ cmd.name \in CredentialCommands
     /\ ResolvedEmpty("projectId") \/ ResolvedEmpty("apiKey")) =>
        /\ http = <<>>
        /\ cmd.pc \in {"start", "done"}
        /\ cmd.pc = "done" => cmd.outcome = "exited" /\ cmd.exitCode = 1

C21_Witness ==
    /\ CommandOver({"delete"})
    /\ cmd.opts.release = "v1.0.0"
    /\ ~ResolvedEmpty("projectId")
    /\ ResolvedEmpty("apiKey")
    /\ cmd.caught = <<>>
    /\ cmd.exitCode = 1
    /\ http = <<>>

\* C22: a delete run in which a DELETE request failed ends with a
\* non-zero exit code
C22_PartialFailureExitsNonZero ==
    (CommandOver({"delete"}) /\ cmd.failedCount > 0) =>
        cmd.outcome = "exited" /\ cmd.exitCode # 0

\* C23: the delete loop sends one DELETE per file of the list, in list
\* order and each only after the one before was answered; a failure does
\* not stop it; at the end deletedCount + failedCount is the length of the
\* list and errors has failedCount entries
C23_LoopNeverAborts ==
    cmd.name = "delete" =>
        /\ Len(DeleteRequests) <= Len(cmd.filesToDelete)
        /\ Len(DeleteRequests) <= cmd.settled + 1
        /\ cmd.deletedCount + cmd.failedCount = cmd.settled
        /\ \A k \in 1..Len(DeleteRequests) :
              DeleteRequests[k].url[5] = cmd.filesToDelete[k]
        /\ (cmd.pc = "done" /\ DeleteRequests # <<>>) =>
              /\ Len(DeleteRequests) = Len(cmd.filesToDelete)
              /\ cmd.deletedCount + cmd.failedCount = Len(cmd.filesToDelete)
              /\ Len(cmd.errors) = cmd.failedCount

C23_Witness ==
    /\ CommandOver({"delete"})
    /\ Len(cmd.filesToDelete) = 2
    /\ Len(DeleteRequests) = 2
    /\ cmd.failedCount = 1
    /\ cmd.deletedCount = 1
    /\ cmd.errors[1][1] = cmd.filesToDelete[1]

\* C24: delete issues a DELETE request only after --yes or a yes to the
\* confirmation prompt; after a no the run is over with no DELETE request
C24_AsksBeforeDelete ==
    cmd.name = "delete" =>
        /\ DeleteRequests # <<>> =>
              cmd.opts.yes \/ <<"confirm", "y">> \in Range(cmd.asked)
        /\ cmd.opts.yes => cmd.asked = <<>>
        /\ <<"confirm", "n">> \in Range(cmd.asked) =>
              DeleteRequests = <<>> /\ cmd.pc = "done" /\ cmd.outcome = "returned"

C24_Witness ==
    /\ CommandOver({"delete"})
    /\ <<"confirm", "n">> \in Range(cmd.asked)
    /\ Len(cmd.filesToDelete) = 2
    /\ Len(http) = 1
    /\ DeleteRequests = <<>>


\* a command other than init has resolved its options: getConfig() returned
Resolved == cmd.name \notin {"none", "init"} /\ cmd.pc # "start" /\ cmd.caught = <<>>

\* what the local file the lookup finds holds, and what ~/.keplogrc holds
LocalObj == IF LocalParses THEN fs[LocalFound].obj ELSE EmptyObj

GlobalObj == IF GlobalParses THEN fs[GLOBAL_CONFIG_PATH].obj ELSE EmptyObj

C27_CaughtExitsOne ==
    cmd.caught # <<>> => cmd.outcome = "exited" /\ cmd.exitCode = 1

\* C27: every error that reaches the outermost catch block of a command
\* handler ends the process there, with exit code 1, except an error of init
\* whose message is 'canceled', which ends the process with exit code 0.
C27_CaughtExits ==
    cmd.caught # <<>> =>
        /\ cmd.pc = "done"
        /\ cmd.outcome = "exited"
        /\ cmd.exitCode = IF cmd.name = "init" /\ cmd.caught = <<Canceled>> THEN 0 ELSE 1

\* init was refused the write of the config file and ended with exit code 1
C27_Witness ==
    /\ cmd.name = "init"
    /\ cmd.caught = <<WriteDenied>>
    /\ cmd.outcome = "exited"
    /\ cmd.exitCode = 1

\* the answer init got to a prompt, undefined when the prompt was not shown
AnswerTo(prompt) ==
    IF \E a \in Range(cmd'.asked) : a[1] = prompt
    THEN (CHOOSE a \in Range(cmd'.asked) : a[1] = prompt)[2]
    ELSE Undefined

\* C28: init leaves an existing configuration untouched unless overwriting
\* was agreed: without --force it writes over an existing file of the chosen
\* scope only after the overwrite prompt was answered with yes; it writes
\* nothing when the projectId or the apiKey answer is empty; with --force it
\* shows no overwrite prompt.
C28_InitKeepsExisting ==
    [][cmd.name = "init" =>
        /\ \A p \in Paths :
              fs'[p] # fs[p] =>
                /\ Truthy(AnswerTo("projectId"))
                /\ Truthy(AnswerTo("apiKey"))
                /\ (existsSync(fs, p) /\ ~cmd.opts.force) => AnswerTo("overwrite") = "y"
        /\ cmd.opts.force => AnswerTo("overwrite") = Undefined]_vars

\* the same, for runs that do not start in the filesystem root
C28_BelowRoot ==
    [][(cmd.name = "init" /\ cwd # <<>>) =>
        /\ \A p \in Paths :
              fs'[p] # fs[p] =>
                /\ Truthy(AnswerTo("projectId"))
                /\ Truthy(AnswerTo("apiKey"))
                /\ (existsSync(fs, p) /\ ~cmd.opts.force) => AnswerTo("overwrite") = "y"
        /\ cmd.opts.force => AnswerTo("overwrite") = Undefined]_vars

========================================================================
